---- MODULE Spec2Model ----
(***************************************************************************)
(* Model of MotherGooseClubChef.load_content_from_spreadsheet              *)
(* (src/sushichef.py): the pass over the spreadsheet that resolves every   *)
(* non-empty cell to a file of the resource directory.                     *)
(*                                                                         *)
(* Python strings are TLA+ strings; None and '' are both the empty string, *)
(* because the code only ever tests them for truthiness ("value or ''",    *)
(* "if value:", "if not resource_file", "if resource_file:").              *)
(***************************************************************************)
EXTENDS Integers, Sequences, FiniteSets, TLC

(***************************************************************************)
(* Bounds of the model.                                                    *)
(***************************************************************************)
\* Largest number of filenames in the directory listing.
MaxPool == 3
\* Largest number of pieces a generated title is concatenated from.
MaxPieces == 3

(***************************************************************************)
(* String functions of Python used by the code.                            *)
(***************************************************************************)
LowerOf ==
  [A |-> "a", B |-> "b", C |-> "c", D |-> "d", E |-> "e", F |-> "f", G |-> "g",
   H |-> "h", I |-> "i", J |-> "j", K |-> "k", L |-> "l", M |-> "m", N |-> "n",
   O |-> "o", P |-> "p", Q |-> "q", R |-> "r", S |-> "s", T |-> "t", U |-> "u",
   V |-> "v", W |-> "w", X |-> "x", Y |-> "y", Z |-> "z"]

RECURSIVE Lower(_)
\* str.lower()
Lower(s) ==
  IF s = "" THEN ""
  ELSE LET ch == Head(s)
       IN (IF ch \in DOMAIN LowerOf THEN LowerOf[ch] ELSE ch) \o Lower(Tail(s))

\* str.startswith(p)
StartsWith(s, p) == Len(p) <= Len(s) /\ SubSeq(s, 1, Len(p)) = p

\* str.endswith(suffix)
EndsWith(s, suffix) ==
  Len(suffix) <= Len(s) /\ SubSeq(s, Len(s) - Len(suffix) + 1, Len(s)) = suffix

\* "sub in s"
Contains(s, sub) ==
  \E i \in 1..(Len(s) - Len(sub) + 1) : SubSeq(s, i, i + Len(sub) - 1) = sub

RECURSIVE LStrip(_)
LStrip(s) == IF s # "" /\ Head(s) = " " THEN LStrip(Tail(s)) ELSE s

RECURSIVE RStrip(_)
RStrip(s) ==
  IF s # "" /\ SubSeq(s, Len(s), Len(s)) = " "
  THEN RStrip(SubSeq(s, 1, Len(s) - 1))
  ELSE s

\* str.strip(): the whitespace of the model's strings is the space.
Strip(s) == RStrip(LStrip(s))

RECURSIVE ReplaceFirstOnly(_, _, _)
\* str.replace(old, new, 1): only the first occurrence is replaced.
ReplaceFirstOnly(s, old, new) ==
  IF Len(s) < Len(old) THEN s
  ELSE IF SubSeq(s, 1, Len(old)) = old
       THEN new \o SubSeq(s, Len(old) + 1, Len(s))
       ELSE SubSeq(s, 1, 1) \o ReplaceFirstOnly(Tail(s), old, new)

RECURSIVE Replace(_, _, _)
\* str.replace(old, new) for a non-empty old: every occurrence, found from
\* left to right without overlap; the replaced text is not scanned again.
Replace(s, old, new) ==
  IF Len(s) < Len(old) THEN s
  ELSE IF SubSeq(s, 1, Len(old)) = old
       THEN new \o Replace(SubSeq(s, Len(old) + 1, Len(s)), old, new)
       ELSE SubSeq(s, 1, 1) \o Replace(Tail(s), old, new)

(***************************************************************************)
(* Constants of the code.                                                  *)
(***************************************************************************)
TOPIC_FILENAME_PREFIXES ==
  ("SH Videos" :> <<"SH.ANIM", "SH.LIVE">>) @@
  ("Mini Books" :> <<"Mini Book">>) @@
  ("Activity Books" :> <<"Website.Activity Book">>) @@
  ("Board Books" :> <<"Board Book">>) @@
  ("MGCL/MGC Anim Videos" :> <<"MGC.ANIM", "MGC.LIVE", "MGC.LIVE.EPISODE">>) @@
  ("PHL Videos" :> <<"PH.ANIM", "PH.LIVE">>) @@
  ("MGC ABC/Counting Videos" :>
      <<"MGC.ANIM", "MGCB.2D.ANIM", "MGCB.3D.ANIM", "MGC.LIVE">>)

anim_str == "(Anim)"
live_str == "(Live)"

\* The list the title is cleaned with: [anim_str, live_str, '(2D Anim)', '(3D Anim)'].
RemoveList == <<anim_str, live_str, "(2D Anim)", "(3D Anim)">>

replacements ==
  << <<",", "">>, <<" Group", ".Group">>, <<" Noa", ".Noa">>,
     <<" Robert", ".Robert">>, <<" Caralyn", ".Caralyn">> >>

(***************************************************************************)
(* The steps of the resolution of one cell, as functions.                  *)
(***************************************************************************)
\* prefix_list: the category's list, overridden by the 2D and 3D markers.
\* A category without an entry raises KeyError before this is reached.
PrefixList(category, v) ==
  IF Contains(v, "(2D Anim)") THEN <<"MGCB.2D.ANIM">>
  ELSE IF Contains(v, "(3D Anim)") THEN <<"MGCB.3D.ANIM">>
  ELSE TOPIC_FILENAME_PREFIXES[category]

\* The two "continue" tests at the head of the loop over prefix_list.
SkipPrefix(v, prefix) ==
  \/ Contains(v, anim_str) /\ Contains(prefix, "LIVE")
  \/ Contains(v, live_str) /\ Contains(prefix, "ANIM")

RECURSIVE RemoveFrom(_, _)
RemoveFrom(v, i) ==
  IF i > Len(RemoveList) THEN v
  ELSE RemoveFrom(Strip(Replace(v, RemoveList[i], "")), i + 1)

RECURSIVE RemoveFirstFrom(_, _)
RemoveFirstFrom(v, i) ==
  IF i > Len(RemoveList) THEN v
  ELSE RemoveFirstFrom(Strip(ReplaceFirstOnly(v, RemoveList[i], "")), i + 1)

\* A cleaning that replaces only the first occurrence of each marker.
RemoveMarkersFirstOnly(v) == RemoveFirstFrom(v, 1)

\* for remove in [...]: value = value.replace(remove, '').strip()
RemoveMarkers(v) == RemoveFrom(v, 1)

\* "{}.{}.".format(prefix, value)
FilePrefix(prefix, v) == prefix \o "." \o v \o "."

\* resource.lower().startswith(file_prefix.lower())
DirectMatch(resource, file_prefix) ==
  StartsWith(Lower(resource), Lower(file_prefix))

\* The else branch: some replacement of the table makes the prefix match.
\* Each replacement is applied alone, to the whole file_prefix.
FallbackMatch(resource, file_prefix) ==
  LET lowered == Lower(resource)
  IN \E i \in DOMAIN replacements :
        StartsWith(lowered,
                   Lower(Replace(file_prefix, replacements[i][1], replacements[i][2])))

RECURSIVE FoundFrom(_, _, _)
FoundFrom(listed, file_prefix, i) ==
  IF i > Len(listed) THEN <<>>
  ELSE IF DirectMatch(listed[i], file_prefix)
       THEN <<listed[i]>> \o FoundFrom(listed, file_prefix, i + 1)
       ELSE FoundFrom(listed, file_prefix, i + 1)

\* found_files after the loop over resources: the direct matches, in the
\* order of the listing.
FoundFiles(listed, file_prefix) == FoundFrom(listed, file_prefix, 1)

RECURSIVE FallbackFrom(_, _, _, _)
FallbackFrom(listed, file_prefix, best, i) ==
  IF i > Len(listed) THEN best
  ELSE IF ~DirectMatch(listed[i], file_prefix) /\ FallbackMatch(listed[i], file_prefix)
       THEN FallbackFrom(listed, file_prefix, listed[i], i + 1)
       ELSE FallbackFrom(listed, file_prefix, best, i + 1)

\* resource_file after the loop over resources: the last resource of the
\* listing that matches through the table, else what it held before.
FallbackFile(listed, file_prefix, best) == FallbackFrom(listed, file_prefix, best, 1)

RECURSIVE SelectFrom(_, _, _)
SelectFrom(found, best, i) ==
  IF i > Len(found) THEN best
  ELSE IF (best = "" \/ Len(found[i]) < Len(best))
          /\ ~EndsWith(Lower(found[i]), ".mov")
       THEN SelectFrom(found, found[i], i + 1)
       ELSE SelectFrom(found, best, i + 1)

RECURSIVE SelectLastFrom(_, _, _)
SelectLastFrom(found, best, i) ==
  IF i > Len(found) THEN best
  ELSE IF ~EndsWith(Lower(found[i]), ".mov")
       THEN SelectLastFrom(found, found[i], i + 1)
       ELSE SelectLastFrom(found, best, i + 1)

\* A selection that keeps every found file, whatever its length.
SelectLast(found, best) == SelectLastFrom(found, best, 1)

RECURSIVE SelectOnlyShorterFrom(_, _, _)
SelectOnlyShorterFrom(found, best, i) ==
  IF i > Len(found) THEN best
  ELSE IF Len(found[i]) < Len(best) /\ ~EndsWith(Lower(found[i]), ".mov")
       THEN SelectOnlyShorterFrom(found, found[i], i + 1)
       ELSE SelectOnlyShorterFrom(found, best, i + 1)

\* A selection without the "not resource_file" test: nothing is shorter than
\* an empty best match.
SelectOnlyShorter(found, best) == SelectOnlyShorterFrom(found, best, 1)

RECURSIVE SelectFirstFrom(_, _, _)
SelectFirstFrom(found, best, i) ==
  IF i > Len(found) THEN best
  ELSE IF best = "" /\ ~EndsWith(Lower(found[i]), ".mov")
       THEN SelectFirstFrom(found, found[i], i + 1)
       ELSE SelectFirstFrom(found, best, i + 1)

\* A selection without the comparison of lengths: the first found file stays.
SelectFirst(found, best) == SelectFirstFrom(found, best, 1)

RECURSIVE SelectLongestFrom(_, _, _)
SelectLongestFrom(found, best, i) ==
  IF i > Len(found) THEN best
  ELSE IF (best = "" \/ Len(found[i]) > Len(best))
          /\ ~EndsWith(Lower(found[i]), ".mov")
       THEN SelectLongestFrom(found, found[i], i + 1)
       ELSE SelectLongestFrom(found, best, i + 1)

\* A selection with the comparison of lengths turned round.
SelectLongest(found, best) == SelectLongestFrom(found, best, 1)

\* resource_file after the loop over found_files.
SelectShortest(found, best) == SelectFrom(found, best, 1)

\* The entry of the display title: the title, not the cleaned value.
ContentCleaned(t, v, file) == [title |-> v, file |-> file]

\* content = {'title': title, 'file': resource_file}
Content(t, v, file) == [title |-> t, file |-> file]

\* The best match kept from the cell before.
InitialResourceFileKept(previous) == previous

\* resource_file = None, at the head of every non-empty cell.
InitialResourceFile(previous) == ""

\* The lookup on every cell, empty or not.
LookupFailsEager(category, cell) == category \notin DOMAIN TOPIC_FILENAME_PREFIXES

\* TOPIC_FILENAME_PREFIXES[type] raises KeyError; it is evaluated inside "if value:".
LookupFails(category, cell) ==
  cell # "" /\ category \notin DOMAIN TOPIC_FILENAME_PREFIXES

RECURSIVE ResolveFrom(_, _, _, _, _)
ResolveFrom(listed, plist, v, best, i) ==
  IF i > Len(plist) THEN best
  ELSE IF SkipPrefix(v, plist[i]) THEN ResolveFrom(listed, plist, v, best, i + 1)
  ELSE LET nv == RemoveMarkers(v)
           p == FilePrefix(plist[i], nv)
       IN ResolveFrom(listed, plist, nv,
                      SelectShortest(FoundFiles(listed, p), FallbackFile(listed, p, best)),
                      i + 1)

\* resource_file after the loop over prefix_list, for a cell of a configured
\* category: the body of "if value:" as one function of the cell and the listing.
ResolveCell(category, cell, listed) ==
  LET v == Strip(cell)
  IN ResolveFrom(listed, PrefixList(category, v), v, InitialResourceFile(""), 1)

(***************************************************************************)
(* The inputs: the workbook and the listing of the resource directory.     *)
(***************************************************************************)
BoardFiles ==
  { "Board Book.A, B.pdf", "Board Book.A, B.2.pdf", "Board Book.A, B.mov",
    "BOARD BOOK.A, B.PDF", "Board Book.A B.pdf", "Board Book.A B.extra.pdf" }

VideoFiles == { "SH.ANIM.A, B.mp4", "SH.LIVE.A, B.mp4", "SH.LIVE.A B.v2.mp4" }

\* The sequences without repetition of at most n names of S.
Listings(S, n) ==
  UNION { { l \in [1..k -> S] : \A i, j \in 1..k : l[i] = l[j] => i = j } : k \in 0..n }

\* Workbooks, each with the filenames its resource directory is filled from.
\* Row 1 of a sheet is the header; an empty string is an empty cell.
Scenarios ==
  { [ sheet |-> << <<"Board Books", "SH Videos">>,
                   <<"A, B", "A, B (Anim)">>,
                   <<"Zed", " A, B (Live) ">> >>,
      files |-> VideoFiles \cup { "BOARD BOOK.A, B.PDF", "Board Book.A B.pdf" } ],
    [ sheet |-> << <<"SH Videos", "Puzzles">>,
                   <<"A, B (Anim)", "">>,
                   <<"Zed", "Zed">>,
                   <<"A, B (Live)", "">> >>,
      files |-> VideoFiles \cup { "Board Book.A, B.pdf" } ],
    [ sheet |-> << <<"Board Books", "Puzzles">>,
                   <<"A, B", "">>,
                   <<"Zed", "">> >>,
      files |-> { "Board Book.A, B.pdf", "Board Book.A B.pdf" } ],
    [ sheet |-> << <<"", " Board Books ">>,
                   <<"A, B", "A, B">>,
                   <<"", "Zed">>,
                   <<"Zed", "">> >>,
      files |-> BoardFiles ],
    [ sheet |-> << <<"Puzzles", "Board Books">>,
                   <<"Zed", "A, B">> >>,
      files |-> { "Board Book.A, B.pdf" } ],
    [ sheet |-> << <<"Board Books", "Board Books">>,
                   <<"A, B", "Zed">>,
                   <<"Zed", "A, B">> >>,
      files |-> { "Board Book.A, B.pdf", "Board Book.A, B.2.pdf",
                  "Board Book.A, B.mov", "Board Book.A B.pdf" } ] }

Pieces == {"A", " ", "(Anim)", "(Live)", "(2D Anim)", "(3D Anim)", "(", "Anim)"}

RECURSIVE TitlesOf(_)
\* The concatenations of at most n pieces.
TitlesOf(n) ==
  IF n = 0 THEN {""}
  ELSE LET shorter == TitlesOf(n - 1)
       IN shorter \cup { t \o p : t \in shorter, p \in Pieces }

TitleSheets ==
  { << <<"MGC ABC/Counting Videos">>, <<t>> >> : t \in TitlesOf(MaxPieces) }

TitleListings == { <<"MGC.ANIM.A.mp4", "MGC.LIVE.A.mp4">> }

(***************************************************************************)
(* The state.                                                              *)
(***************************************************************************)
VARIABLES
  sheet,            \* the active sheet of Resources.xlsx
  listing,          \* what os.listdir(RESOURCES_DIR) returns
  pc,               \* "start", "cell", "prefix", "select", "done", "aborted"
  col_names,        \* self.col_names
  content_by_type,  \* self.content_by_type
  log,              \* the lines printed
  r, c,             \* the loops over rows and columns
  type, value, title, resources, resource_file, prefixes, prefix_list,
  pi,               \* the position of the loop over prefix_list
  file_prefix, found_files

vars ==
  << sheet, listing, pc, col_names, content_by_type, log, r, c, type, value,
     title, resources, resource_file, prefixes, prefix_list, pi, file_prefix,
     found_files >>

num_rows == Len(sheet)
num_cols == Len(sheet[1])

Init ==
  /\ \/ \E sc \in Scenarios :
           sheet = sc.sheet /\ listing \in Listings(sc.files, MaxPool)
     \/ sheet \in TitleSheets /\ listing \in TitleListings
  /\ pc = "start"
  /\ col_names = <<>>
  /\ content_by_type = <<>>
  /\ log = <<>>
  /\ r = 0 /\ c = 0
  /\ type = "" /\ value = "" /\ title = ""
  /\ resources = <<>> /\ resource_file = ""
  /\ prefixes = <<>> /\ prefix_list = <<>> /\ pi = 0
  /\ file_prefix = "" /\ found_files = <<>>

locals ==
  << type, value, title, resources, resource_file, prefixes, prefix_list, pi,
     file_prefix, found_files >>

\* The cell that follows (r, c): columns left to right, then the next row.
NextRow == IF c < num_cols THEN r ELSE r + 1
NextCol == IF c < num_cols THEN c + 1 ELSE 1

\* Lines 114-119: the header row is read into col_names.
LoadHeader ==
  /\ pc = "start"
  /\ col_names' = [k \in 1..num_cols |-> sheet[1][k]]
  /\ content_by_type' = <<>>
  /\ r' = 2 /\ c' = 1
  /\ pc' = "cell"
  /\ UNCHANGED << sheet, listing, log, locals >>

\* Line 121: range(2, num_rows + 1) is exhausted.
Finish ==
  /\ pc = "cell" /\ r > num_rows
  /\ pc' = "done"
  /\ UNCHANGED << sheet, listing, col_names, content_by_type, log, r, c, locals >>

\* Lines 123-124: a column without a name is passed over.
SkipColumn ==
  /\ pc = "cell" /\ r <= num_rows
  /\ col_names[c] = ""
  /\ r' = NextRow /\ c' = NextCol
  /\ UNCHANGED << sheet, listing, pc, col_names, content_by_type, log, locals >>

\* Lines 126-130: an empty cell.
SkipEmptyCell ==
  /\ pc = "cell" /\ r <= num_rows
  /\ col_names[c] # ""
  /\ sheet[r][c] = ""
  /\ ~LookupFails(Strip(col_names[c]), sheet[r][c])
  /\ type' = Strip(col_names[c])
  /\ value' = sheet[r][c]
  /\ resources' = listing
  /\ r' = NextRow /\ c' = NextCol
  /\ UNCHANGED << sheet, listing, pc, col_names, content_by_type, log, title,
                  resource_file, prefixes, prefix_list, pi, file_prefix,
                  found_files >>

\* Lines 126-135: the category of a non-empty cell has no entry: KeyError.
AbortUnknownCategory ==
  /\ pc = "cell" /\ r <= num_rows
  /\ col_names[c] # ""
  /\ LookupFails(Strip(col_names[c]), sheet[r][c])
  /\ type' = Strip(col_names[c])
  /\ value' = Strip(sheet[r][c])
  /\ title' = Strip(sheet[r][c])
  /\ resources' = listing
  /\ resource_file' = InitialResourceFile(resource_file)
  /\ prefixes' = <<>>
  /\ pc' = "aborted"
  /\ UNCHANGED << sheet, listing, col_names, content_by_type, log, r, c,
                  prefix_list, pi, file_prefix, found_files >>

\* Lines 126-139: a non-empty cell of a configured category.
BeginCell ==
  /\ pc = "cell" /\ r <= num_rows
  /\ col_names[c] # ""
  /\ sheet[r][c] # ""
  /\ ~LookupFails(Strip(col_names[c]), sheet[r][c])
  /\ type' = Strip(col_names[c])
  /\ value' = Strip(sheet[r][c])
  /\ title' = Strip(sheet[r][c])
  /\ resources' = listing
  /\ resource_file' = InitialResourceFile(resource_file)
  /\ prefixes' = <<>>
  /\ prefix_list' = PrefixList(Strip(col_names[c]), Strip(sheet[r][c]))
  /\ pi' = 1
  /\ pc' = "prefix"
  /\ UNCHANGED << sheet, listing, col_names, content_by_type, log, r, c,
                  file_prefix, found_files >>

\* Lines 141-148: the prefix is passed over.
SkipToken ==
  /\ pc = "prefix" /\ pi <= Len(prefix_list)
  /\ SkipPrefix(value, prefix_list[pi])
  /\ pi' = pi + 1
  /\ UNCHANGED << sheet, listing, pc, col_names, content_by_type, log, r, c,
                  type, value, title, resources, resource_file, prefixes,
                  prefix_list, file_prefix, found_files >>

\* Lines 150-164: the value is cleaned, the prefix built, the listing searched.
ScanResources ==
  /\ pc = "prefix" /\ pi <= Len(prefix_list)
  /\ ~SkipPrefix(value, prefix_list[pi])
  /\ LET v == RemoveMarkers(value)
         p == FilePrefix(prefix_list[pi], v)
     IN /\ value' = v
        /\ file_prefix' = p
        /\ prefixes' = Append(prefixes, p)
        /\ found_files' = FoundFiles(resources, p)
        /\ resource_file' = FallbackFile(resources, p, resource_file)
  /\ pc' = "select"
  /\ UNCHANGED << sheet, listing, col_names, content_by_type, log, r, c, type,
                  title, resources, prefix_list, pi >>

\* Lines 165-173: the loop over found_files.
SelectFound ==
  /\ pc = "select"
  /\ resource_file' = SelectShortest(found_files, resource_file)
  /\ pi' = pi + 1
  /\ pc' = "prefix"
  /\ UNCHANGED << sheet, listing, col_names, content_by_type, log, r, c, type,
                  value, title, resources, prefixes, prefix_list, file_prefix,
                  found_files >>

\* The loop over prefix_list is exhausted.
AtEmit == pc = "prefix" /\ pi > Len(prefix_list)

AddingLine(content) ==
  [kind |-> "Adding content", title |-> content.title, file |-> content.file,
   prefixes |-> <<>>]

UnableLine(tried) ==
  [kind |-> "Unable to find file for", title |-> "", file |-> "",
   prefixes |-> tried]

\* An entry inserted at the head of the list of its category.
AppendedInFront(by_type, category, content) ==
  IF category \in DOMAIN by_type
  THEN [by_type EXCEPT ![category] = <<content>> \o @]
  ELSE by_type @@ (category :> <<content>>)

\* self.content_by_type[type].append(content), the key created when missing.
Appended(by_type, category, content) ==
  IF category \in DOMAIN by_type
  THEN [by_type EXCEPT ![category] = Append(@, content)]
  ELSE by_type @@ (category :> <<content>>)

\* Lines 176-181: a file was found.
AddContent ==
  /\ AtEmit
  /\ resource_file # ""
  /\ LET content == Content(title, value, resource_file)
     IN /\ content_by_type' = Appended(content_by_type, type, content)
        /\ log' = Append(log, AddingLine(content))
  /\ r' = NextRow /\ c' = NextCol
  /\ pc' = "cell"
  /\ UNCHANGED << sheet, listing, col_names, locals >>

\* Lines 182-183: no file was found.
ReportUnresolved ==
  /\ AtEmit
  /\ resource_file = ""
  /\ log' = Append(log, UnableLine(prefixes))
  /\ r' = NextRow /\ c' = NextCol
  /\ pc' = "cell"
  /\ UNCHANGED << sheet, listing, col_names, content_by_type, locals >>

Next ==
  \/ LoadHeader
  \/ Finish
  \/ SkipColumn
  \/ SkipEmptyCell
  \/ AbortUnknownCategory
  \/ BeginCell
  \/ SkipToken
  \/ ScanResources
  \/ SelectFound
  \/ AddContent
  \/ ReportUnresolved

Spec == Init /\ [][Next]_vars

(***************************************************************************)
(* Vocabulary of the properties.                                           *)
(***************************************************************************)
Range(f) == { f[i] : i \in DOMAIN f }

Markers == {"(Anim)", "(Live)", "(2D Anim)", "(3D Anim)"}

HasMarker(t) == \E m \in Markers : Contains(t, m)

\* A case-insensitive literal prefix match.
MatchesPrefix(f, p) == StartsWith(Lower(f), Lower(p))

\* A match through the substitution table only.
MatchesBySubstitution(f, p) ==
  /\ ~MatchesPrefix(f, p)
  /\ \E i \in DOMAIN replacements :
        StartsWith(Lower(f), Lower(Replace(p, replacements[i][1], replacements[i][2])))

IsMov(f) == EndsWith(Lower(f), ".mov")

\* The pool filenames that match a candidate prefix of the current cell.
DirectSet == { f \in Range(resources) : \E i \in DOMAIN prefixes : MatchesPrefix(f, prefixes[i]) }

NonMovSet == { f \in DirectSet : ~IsMov(f) }

ExactCaseSet == { f \in Range(resources) : \E i \in DOMAIN prefixes : StartsWith(f, prefixes[i]) }

FallbackSet ==
  { f \in Range(resources) : \E i \in DOMAIN prefixes : MatchesBySubstitution(f, prefixes[i]) }

\* The candidate prefix p was built from a token that contains word.
BuiltFrom(p, word) ==
  \E cat \in DOMAIN TOPIC_FILENAME_PREFIXES :
     \E k \in DOMAIN TOPIC_FILENAME_PREFIXES[cat] :
        /\ Contains(TOPIC_FILENAME_PREFIXES[cat][k], word)
        /\ StartsWith(p, TOPIC_FILENAME_PREFIXES[cat][k] \o ".")

MatchedThrough(f, word) ==
  \E i \in DOMAIN prefixes :
     /\ BuiltFrom(prefixes[i], word)
     /\ (MatchesPrefix(f, prefixes[i]) \/ MatchesBySubstitution(f, prefixes[i]))

\* The cells of the body in traversal order, numbered from 1.
NumCells == (num_rows - 1) * num_cols
RowOf(n) == 2 + ((n - 1) \div num_cols)
ColOf(n) == 1 + ((n - 1) % num_cols)

\* The number of cells the pass has left behind.
CellsDone == IF pc = "start" THEN 0 ELSE (r - 2) * num_cols + (c - 1)

\* A non-empty cell under a named column.
Eligible(n) == sheet[1][ColOf(n)] # "" /\ sheet[RowOf(n)][ColOf(n)] # ""

Configured(n) == Strip(sheet[1][ColOf(n)]) \in DOMAIN TOPIC_FILENAME_PREFIXES

(***************************************************************************)
(* C1.                                                                     *)
(***************************************************************************)
\* C1: a title that carries "(Anim)" never resolves to a file matched through
\* a candidate prefix built from a token containing LIVE, and a title that
\* carries "(Live)" never to one matched through a token containing ANIM.
C1_NeverWrongLine ==
  (AtEmit /\ resource_file # "") =>
     /\ Contains(title, anim_str) => ~MatchedThrough(resource_file, "LIVE")
     /\ Contains(title, live_str) => ~MatchedThrough(resource_file, "ANIM")

(***************************************************************************)
(* C2.                                                                     *)
(***************************************************************************)
\* C2 as stated: when exactly one pool filename starts, in the exact case, with
\* a candidate prefix of the cell, that filename is the one resolved.
C2_UniqueExactCaseMatchWins ==
  AtEmit => \A f \in Range(resources) : ExactCaseSet = {f} => resource_file = f

\* C2 amended: when exactly one pool filename matches a candidate prefix of the
\* cell (ignoring case), it is not a .mov and no pool filename matches through
\* the substitution table, that filename is the one resolved, whatever else the
\* pool holds and whatever the order of the listing.
C2_UniqueMatchWins ==
  AtEmit =>
    \A f \in Range(resources) :
       (DirectSet = {f} /\ ~IsMov(f) /\ FallbackSet = {}) => resource_file = f

C2_Witness ==
  /\ AtEmit
  /\ Len(resources) >= 2
  /\ FallbackSet = {}
  /\ \E f \in Range(resources) :
        DirectSet = {f} /\ ~IsMov(f) /\ ExactCaseSet = {} /\ resource_file = f

(***************************************************************************)
(* C3.                                                                     *)
(***************************************************************************)
\* C3 as stated: when two or more pool filenames match a candidate prefix, the
\* resolved file is a matching filename that is not a .mov and no other such
\* filename has fewer characters; a matching .mov is never resolved.
C3_ShortestMatchWins ==
  (AtEmit /\ Cardinality(DirectSet) >= 2) =>
     /\ NonMovSet # {} =>
           /\ resource_file \in NonMovSet
           /\ \A g \in NonMovSet : Len(resource_file) <= Len(g)
     /\ resource_file \notin (DirectSet \ NonMovSet)

\* C3 amended: the same, provided no pool filename matches through the
\* substitution table; when every matching filename is a .mov the cell is
\* unresolved.
C3_ShortestMatchWinsWithoutFallback ==
  (AtEmit /\ Cardinality(DirectSet) >= 2 /\ FallbackSet = {}) =>
     /\ NonMovSet # {} =>
           /\ resource_file \in NonMovSet
           /\ \A g \in NonMovSet : Len(resource_file) <= Len(g)
     /\ NonMovSet = {} => resource_file = ""
     /\ resource_file \notin (DirectSet \ NonMovSet)

C3_Witness ==
  /\ AtEmit
  /\ FallbackSet = {}
  /\ Cardinality(NonMovSet) >= 2
  /\ DirectSet # NonMovSet
  /\ \E g \in NonMovSet : Len(resource_file) < Len(g)
  /\ found_files[1] # resource_file

(***************************************************************************)
(* C4.                                                                     *)
(***************************************************************************)
\* C4 as stated: when the header names a category without an entry in
\* TOPIC_FILENAME_PREFIXES, the pass never completes and nothing is ever
\* appended to content_by_type or printed.
C4_AbortBeforeAnyOutput ==
  (pc # "start" /\ \E k \in DOMAIN col_names :
                      /\ col_names[k] # ""
                      /\ Strip(col_names[k]) \notin DOMAIN TOPIC_FILENAME_PREFIXES)
  => (pc # "done" /\ content_by_type = <<>> /\ log = <<>>)

\* C4 amended: the pass aborts exactly at the first non-empty cell, in
\* traversal order, of a named column whose category has no entry; every
\* non-empty cell before it has been processed and has printed its line; a
\* pass that completes met no such cell.
C4_AbortAtFirstCellOfUnknownCategory ==
  /\ pc = "aborted" =>
        /\ Eligible(CellsDone + 1) /\ ~Configured(CellsDone + 1)
        /\ \A n \in 1..CellsDone : Eligible(n) => Configured(n)
        /\ Len(log) = Cardinality({ n \in 1..CellsDone : Eligible(n) })
  /\ pc = "done" =>
        /\ \A n \in 1..NumCells : Eligible(n) => Configured(n)
        /\ Len(log) = Cardinality({ n \in 1..NumCells : Eligible(n) })

C4_Witness ==
  /\ pc = "aborted"
  /\ content_by_type # <<>>
  /\ \E i \in DOMAIN log : log[i].kind = "Unable to find file for"
  /\ \E n \in 1..CellsDone : ~Eligible(n) /\ ~Configured(n)

(***************************************************************************)
(* C5.                                                                     *)
(***************************************************************************)
\* No pool filename matches a candidate prefix of the current cell, directly
\* or through the substitution table.
NoFileMatches ==
  \A f \in Range(listing) : \A i \in DOMAIN prefixes :
     ~MatchesPrefix(f, prefixes[i]) /\ ~MatchesBySubstitution(f, prefixes[i])

Entries ==
  UNION { { <<cat, content_by_type[cat][i]>> : i \in DOMAIN content_by_type[cat] } :
          cat \in DOMAIN content_by_type }

\* The texts of the non-empty cells of the columns named cat.
CellTexts(cat) ==
  { sheet[RowOf(n)][ColOf(n)] :
      n \in { m \in 1..NumCells : Eligible(m) /\ Strip(sheet[1][ColOf(m)]) = cat } }

\* C6 as stated: the title of every entry is the normalized title of its
\* cell, and no title of the output contains a variant marker.
C6_OutputTitleIsNormalized ==
  \A e \in Entries :
     /\ ~HasMarker(e[2].title)
     /\ \E t \in CellTexts(e[1]) : e[2].title = RemoveMarkers(Strip(t))

\* C6 amended: the title of every entry is the text of its cell with the
\* whitespace around it trimmed, the variant markers kept; the normalized
\* title is used for the candidate prefixes only.
C6_OutputTitleIsTrimmedCellText ==
  /\ \A e \in Entries : \E t \in CellTexts(e[1]) : e[2].title = Strip(t)
  /\ AtEmit => title = Strip(sheet[r][c])
  /\ (pc = "cell" /\ log # <<>> /\ log[Len(log)].kind = "Adding content")
        => \E n \in 1..CellsDone :
              /\ Eligible(n)
              /\ \A m \in (n + 1)..CellsDone : ~Eligible(m)
              /\ log[Len(log)].title = Strip(sheet[RowOf(n)][ColOf(n)])

C6_Witness ==
  \E e \in Entries : HasMarker(e[2].title) /\ ~HasMarker(value) /\ pc = "cell"

(***************************************************************************)
(* C7.                                                                     *)
(***************************************************************************)
\* A candidate prefix has been built for the current cell.
PrefixBuilt == pc \in {"prefix", "select"} /\ prefixes # <<>>

\* C7 as stated: cleaning a cleaned title changes nothing, so that every
\* candidate prefix of a cell ends with the same normalized title.
C7_StrippingIsIdempotent ==
  PrefixBuilt =>
     /\ RemoveMarkers(value) = value
     /\ \A i \in DOMAIN prefixes : EndsWith(prefixes[i], "." \o value \o ".")

\* Every parenthesis of t belongs to a whole marker.
WholeMarkers(t) ==
  \A i \in 1..Len(t) :
     /\ SubSeq(t, i, i) = "(" =>
           \E m \in Markers : i + Len(m) - 1 <= Len(t) /\ SubSeq(t, i, i + Len(m) - 1) = m
     /\ SubSeq(t, i, i) = ")" =>
           \E m \in Markers : i >= Len(m) /\ SubSeq(t, i - Len(m) + 1, i) = m

\* C7 amended: the same for every title whose parentheses all belong to whole
\* markers (no marker is pieced together by the removal of another).
C7_StrippingIsIdempotentOnWholeMarkers ==
  (PrefixBuilt /\ WholeMarkers(title)) =>
     /\ RemoveMarkers(value) = value
     /\ ~HasMarker(value)
     /\ \A i \in DOMAIN prefixes : EndsWith(prefixes[i], "." \o value \o ".")

C7_Witness ==
  /\ PrefixBuilt /\ WholeMarkers(title)
  /\ Len(prefixes) >= 2
  /\ Contains(title, anim_str)
  /\ value # ""

(***************************************************************************)
(* C8.                                                                     *)
(***************************************************************************)
RECURSIVE ResolvedEntries(_, _)
\* The entries of the resolved cells of category cat among the first n cells,
\* in traversal order.
ResolvedEntries(cat, n) ==
  IF n = 0 THEN <<>>
  ELSE LET cell == sheet[RowOf(n)][ColOf(n)]
           file == ResolveCell(cat, cell, listing)
           rest == ResolvedEntries(cat, n - 1)
       IN IF Eligible(n) /\ Strip(sheet[1][ColOf(n)]) = cat /\ file # ""
          THEN Append(rest, [title |-> Strip(cell), file |-> file])
          ELSE rest

ResolvedContent(n) ==
  LET cats == { Strip(sheet[1][k]) : k \in 1..num_cols } \cap DOMAIN TOPIC_FILENAME_PREFIXES
      all == [cat \in cats |-> ResolvedEntries(cat, n)]
  IN [cat \in { k \in cats : all[k] # <<>> } |-> all[cat]]

\* The number of entries of content_by_type.
NumEntries(by_type) ==
  Cardinality({ e \in (DOMAIN by_type) \X (1..NumCells) : e[2] <= Len(by_type[e[1]]) })

\* C8: when the pass ends content_by_type holds, for every category, exactly
\* the entries of the resolved cells of that category among the cells the
\* pass has left behind, in traversal order, and no key for a category
\* without one; every step keeps the entries that are there, in their places,
\* and only the end of a cell adds one, at the end of the list of its category.
C8_ContentIsResolvedCellsInOrder ==
  /\ [](pc \in {"done", "aborted"} => content_by_type = ResolvedContent(CellsDone))
  /\ [][ /\ \A cat \in DOMAIN content_by_type :
               /\ cat \in DOMAIN content_by_type'
               /\ SubSeq(content_by_type'[cat], 1, Len(content_by_type[cat]))
                     = content_by_type[cat]
         /\ NumEntries(content_by_type') <= NumEntries(content_by_type) + 1
         /\ NumEntries(content_by_type') # NumEntries(content_by_type)
               => (AtEmit /\ pc' = "cell" /\ Eligible(CellsDone + 1)) ]_vars

C8_Witness ==
  /\ pc = "done"
  /\ \E cat \in DOMAIN content_by_type : Len(content_by_type[cat]) >= 2
  /\ \E i \in DOMAIN log : log[i].kind = "Unable to find file for"
  /\ Cardinality(DOMAIN content_by_type) >= 2

(***************************************************************************)
(* C9.                                                                     *)
(***************************************************************************)
\* The listings that hold the same filenames as l.
Reorderings(l) ==
  { m \in [1..Len(l) -> Range(l)] : \A i, j \in 1..Len(l) : m[i] = m[j] => i = j }

InsideCell == pc \in {"prefix", "select"} /\ pc' \in {"prefix", "select"}

\* C10 as stated: once resource_file holds a filename, no later step of the
\* cell empties it or replaces it by a filename with more characters.
C10_AccumulatorOnlyImproves ==
  [][ (InsideCell /\ resource_file # "") =>
        (resource_file' # "" /\ Len(resource_file') <= Len(resource_file)) ]_vars

\* C10 amended: once resource_file holds a filename, no later step of the cell
\* empties it, and the loop over the direct matches replaces it only by a
\* filename with strictly fewer characters; the search through the
\* substitution table may replace it by a filename of any length.
C10_DirectMatchesOnlyShorten ==
  [][ (InsideCell /\ resource_file # "") =>
        /\ resource_file' # ""
        /\ pc = "select" =>
              \/ resource_file' = resource_file
              \/ Len(resource_file') < Len(resource_file) ]_vars

C10_Witness ==
  /\ pc = "select" /\ resource_file # ""
  /\ Len(prefixes) >= 2
  /\ \E i \in DOMAIN found_files :
        /\ found_files[i] # resource_file
        /\ Len(found_files[i]) >= Len(resource_file)
        /\ ~IsMov(found_files[i])

====
